---- MODULE Spec2Model ----
(***************************************************************************)
(* MOF-Advisor-API: the ingestion pipeline (API upload endpoints, Celery   *)
(* worker task, API ingestion service, offline ingestion script) and the   *)
(* query pipeline (feasibility gate, retrieval, protocol generation).      *)
(*                                                                         *)
(* Strings are sequences of one-character strings, so that strip(),        *)
(* replace() and f-string concatenation are computed, not assumed.         *)
(* File names stand for "<name>.md": the ".md" suffix is left implicit.    *)
(* The durable log and the papers directory are assumed readable and       *)
(* writable (no IOError); completion calls and vector-store writes may     *)
(* fail.                                                                   *)
(***************************************************************************)
EXTENDS Integers, Sequences, FiniteSets, TLC

(***************************************************************************)
(* Bounds of the model.                                                    *)
(***************************************************************************)
\* longest "syntheses" list of a Stage-1 reply where two workers run at once
MaxTwoCands == 2
\* most files in one batch upload
MaxBatch == 2
\* longest "syntheses" list of a Stage-1 reply where the names of the candidates vary
MaxNamedCands == 2
\* longest "syntheses" list of a Stage-1 reply where requests and runs interleave
MaxCands == 2
\* longest "syntheses" list of a Stage-1 reply where a single run is followed
MaxRunCands == 3
\* number of external requests (uploads, service calls, script runs) per behaviour
MaxRequests == 2

(***************************************************************************)
(* Strings.                                                                *)
(***************************************************************************)
IsSpace(c) == c = " "

\* str.strip(): drop leading and trailing whitespace
RECURSIVE LStrip(_)
LStrip(s) == IF s # <<>> /\ IsSpace(Head(s)) THEN LStrip(Tail(s)) ELSE s

RECURSIVE RStrip(_)
RStrip(s) ==
    IF s # <<>> /\ IsSpace(s[Len(s)]) THEN RStrip(SubSeq(s, 1, Len(s) - 1)) ELSE s

Strip(s) == RStrip(LStrip(s))

\* str.replace(old, new) for one-character old and new
Replace(s, old, new) == [k \in 1..Len(s) |-> IF s[k] = old THEN new ELSE s[k]]

\* str(i) for the small ordinals the pipelines format
IntStr(i) == <<CASE i = 0 -> "0" [] i = 1 -> "1" [] i = 2 -> "2" [] i = 3 -> "3"
                 [] i = 4 -> "4" [] i = 5 -> "5" [] i = 6 -> "6" [] i = 7 -> "7"
                 [] i = 8 -> "8" [] OTHER -> "9">>

(***************************************************************************)
(* JSON values: [t, v] with t the type tag.  A dictionary key that is      *)
(* absent reads as Missing.                                                *)
(***************************************************************************)
Null == [t |-> "null", v |-> <<>>]
Missing == [t |-> "missing", v |-> <<>>]
Str(s) == [t |-> "str", v |-> s]

\* dict.get(key, default) on the value read for the key
DictGet(val, default) == IF val.t = "missing" THEN default ELSE val

\* Python truthiness of a value read with dict.get(key)
Truthy(val) ==
    CASE val.t = "str" -> val.v # <<>>
      [] val.t = "list" -> val.v # <<>>
      [] val.t = "dict" -> val.v # <<>>
      [] val.t = "bool" -> val.v
      [] val.t = "int" -> val.v # 0
      [] OTHER -> FALSE

Bool(b) == [t |-> "bool", v |-> b]
Num(n) == [t |-> "int", v |-> n]
List(l) == [t |-> "list", v |-> l]
\* a dictionary is the sequence of its <<key, value>> items in insertion order;
\* a key is a sequence of "_"-free tokens, read as joined with "_"
Dict(items) == [t |-> "dict", v |-> items]

HasKey(items, key) == \E k \in 1..Len(items) : items[k][1] = key

\* d[key], or Missing
Lookup(items, key) ==
    IF HasKey(items, key)
    THEN items[CHOOSE k \in 1..Len(items) : items[k][1] = key][2]
    ELSE Missing

\* d[key] = value: replaces in place, or appends a new key
SetItem(items, key, value) ==
    IF HasKey(items, key)
    THEN [k \in 1..Len(items) |->
            IF items[k][1] = key THEN <<key, value>> ELSE items[k]]
    ELSE Append(items, <<key, value>>)

\* str(x) of a scalar
ScalarStr(val) ==
    CASE val.t = "str" -> val.v
      [] val.t = "null" -> <<"N", "o", "n", "e">>
      [] val.t = "bool" -> IF val.v THEN <<"T", "r", "u", "e">>
                                    ELSE <<"F", "a", "l", "s", "e">>
      [] val.t = "int" -> IntStr(val.v)
      [] OTHER -> <<"?">>

\* ", ".join(map(str, l))
RECURSIVE JoinComma(_)
JoinComma(l) ==
    IF l = <<>> THEN <<>>
    ELSE IF Len(l) = 1 THEN ScalarStr(l[1])
    ELSE ScalarStr(l[1]) \o <<",", " ">> \o JoinComma(Tail(l))

\* str(x) of a list or dictionary: its display form, kept apart from every
\* plain string by the leading bracket
PyStr(val) ==
    CASE val.t = "list" -> <<"[">> \o JoinComma(val.v) \o <<"]">>
      [] val.t = "dict" -> <<"{", IntStr(Len(val.v))[1], "}">>
      [] OTHER -> ScalarStr(val)

(***************************************************************************)
(* robust_json_loads.  The content of a completion is classified by how    *)
(* json.loads treats it: "null" (no content), "direct" (parses), "repair"  *)
(* (parses only after unicode_escape decoding), "broken" (neither).        *)
(* The result is [st, val]: st = "ok" with the parsed object, "none" for   *)
(* the None return, "raise" for an exception leaving the function.         *)
(***************************************************************************)
robust_json_loads(content) ==
    CASE content.form = "direct" -> [st |-> "ok", val |-> content.obj]
      [] content.form = "repair" -> [st |-> "ok", val |-> content.obj]
      [] content.form = "broken" -> [st |-> "none", val |-> Null]
      \* json.loads(None) raises TypeError, which is no JSONDecodeError
      [] OTHER -> [st |-> "raise", val |-> Null]

(***************************************************************************)
(* flatten_metadata (worker and API service).                              *)
(***************************************************************************)
RECURSIVE InlineSub(_, _, _)
InlineSub(flat, key, sub) ==
    IF sub = <<>> THEN flat
    ELSE InlineSub(SetItem(flat, key \o Head(sub)[1], Head(sub)[2]), key, Tail(sub))

RECURSIVE FlattenItems(_, _)
FlattenItems(flat, items) ==
    IF items = <<>> THEN flat
    ELSE LET key == Head(items)[1]
             value == Head(items)[2]
             next == CASE value.t = "dict" -> InlineSub(flat, key, value.v)
                       [] value.t = "list" -> SetItem(flat, key, Str(JoinComma(value.v)))
                       [] OTHER -> SetItem(flat, key, value)
         IN  FlattenItems(next, Tail(items))

SanitizeValueRepr(value) ==
    CASE value.t = "null" -> Str(<<"N", "o", "n", "e">>)
      [] value.t = "str" -> Str(<<"'">> \o value.v \o <<"'">>)
      [] value.t = "int" -> value
      [] OTHER -> Str(PyStr(value))
SanitizeValueSkips(value) == value
SanitizeValue(value) ==
    CASE value.t = "null" -> Str(<<"N", "o", "n", "e">>)
      [] value.t = "bool" -> Str(ScalarStr(value))
      [] value.t \in {"str", "int"} -> value
      [] OTHER -> Str(PyStr(value))

flatten_metadata(data) ==
    LET flat == FlattenItems(<<>>, data)
    IN  [k \in 1..Len(flat) |-> <<flat[k][1], SanitizeValue(flat[k][2])>>]

(***************************************************************************)
(* Inputs: file names, Stage-1 candidates, Stage-2 entries, completions.   *)
(***************************************************************************)
\* uploaded or stored papers; the second name carries a leading blank
Docs == {<<"a">>, <<" ", "a">>}

K_syntheses == <<"syntheses">>
K_mof_name == <<"mof", "name">>
K_experimental_text == <<"experimental", "text">>
K_metal_source == <<"metal", "source">>
K_organic_linker == <<"organic", "linker">>
K_solvent == <<"solvent">>
K_formula == <<"formula">>
K_name == <<"name">>
K_mof == <<"mof">>

\* one element of the Stage-1 "syntheses" list
Cand(name, text) ==
    Dict((IF name.t = "missing" THEN <<>> ELSE <<(<<K_mof_name, name>>)>>)
         \o (IF text.t = "missing" THEN <<>> ELSE <<(<<K_experimental_text, text>>)>>))

NameChoices == {Str(<<"M">>), Str(<<"N">>)}
TextChoices == {Str(<<"t">>), Str(<<>>)}
Cands == {Cand(n, x) : n \in NameChoices, x \in TextChoices}

RECURSIVE SeqsUpTo(_, _)
SeqsUpTo(S, n) ==
    IF n = 0 THEN {<<>>}
    ELSE LET shorter == SeqsUpTo(S, n - 1)
         IN  shorter \cup {Append(q, x) : q \in shorter, x \in S}


\* Stage-2 objects: a full entry whose own mof_name differs from Stage 1's,
\* and one whose metal_source is null
EntryFull ==
    Dict(<< <<K_mof_name, Str(<<"Z">>)>>,
            <<K_metal_source, Dict(<< <<K_formula, Str(<<"C", "u">>)>> >>)>>,
            <<K_solvent, List(<<Str(<<"D">>), Str(<<"W">>)>>)>> >>)
EntryNullMetal ==
    Dict(<< <<K_mof_name, Null>>,
            <<K_metal_source, Null>>,
            <<K_solvent, Null>> >>)
Entries == {EntryFull, EntryNullMetal}

\* a completion: the call raised ("error"), or it returned content
Completions(objs) ==
    {[form |-> f, obj |-> Null] : f \in {"error", "null", "broken"}}
    \cup {[form |-> f, obj |-> o] : f \in {"direct", "repair"}, o \in objs}

\* Stage-1 replies whose "syntheses" list has at most n elements of cands
Stage1Replies(cands, n) ==
    Completions({Dict(<< <<K_syntheses, List(l)>> >>) : l \in SeqsUpTo(cands, n)}
                \cup {Dict(<<>>)})
\* Stage-2 replies carrying one of objs
Stage2Replies(objs) == Completions(objs)

\* what a completion is, whatever the caller makes of it: the call raised
\* ("error"), it has no content ("null"), its content parses to no object
\* even after repair ("unparsed"), to the empty object ("empty"), or to a
\* non-empty object ("parsed")
ReplyClass(reply) ==
    CASE reply.form \in {"error", "null"} -> reply.form
      [] reply.form = "broken" -> "unparsed"
      [] reply.obj.v = <<>> -> "empty"
      [] OTHER -> "parsed"

\* candidates with a snippet whose name is plain, holds a blank or a slash,
\* is null, or is missing
NamedCands ==
    {Cand(n, Str(<<"t">>)) :
        n \in {Str(<<"M">>), Str(<<"a", " ", "b">>), Str(<<"a", "/", "b">>), Null, Missing}}

\* the inputs where requests and runs interleave: one name, with and without
\* a snippet, and the full entry
FewCands == {Cand(Str(<<"M">>), x) : x \in TextChoices}
FewEntries == {EntryFull}

\* a Stage-2 object off the schema of the prompt: the name sits in a nested
\* object "mof" as well
EntryNestedName ==
    Dict(<< <<K_mof_name, Str(<<"Z">>)>>,
            <<K_mof, Dict(<< <<K_name, Str(<<"Q">>)>> >>)>> >>)
NameEntries == FewEntries \cup {EntryNestedName}

\* the inputs where two workers run at once: two names, each with a
\* snippet, and two entries that follow the schema
EntryOther ==
    Dict(<< <<K_mof_name, Str(<<"Z">>)>>,
            <<K_metal_source, Dict(<< <<K_formula, Str(<<"Z", "n">>)>> >>)>>,
            <<K_solvent, List(<<Str(<<"D">>)>>)>> >>)
TwoCands == {Cand(n, Str(<<"t">>)) : n \in NameChoices}
TwoEntries == {EntryFull, EntryOther}

(***************************************************************************)
(* State.                                                                  *)
(***************************************************************************)
VARIABLES
    log,        \* scripts/processed_files.log: the sequence of its lines
    papers,     \* the file names in settings.PAPERS_DIR
    store,      \* the vector-store collection: the set of its <<entry id, metadata>>
    queue,      \* the Celery queue: file names of process_paper_task messages
    run,        \* per runner: the frame of the ingestion run it executes
    resp,       \* the last response of an ingestion endpoint
    requests,   \* external requests received so far
    ingested,   \* history: the documents of which a run since the last reset
                \* has ended normally with successful_entries > 0
    qry,        \* the frame of the /suggest request in progress
    fl,         \* two records and what flatten_metadata makes of them
    report,     \* the last response of GET /ingest/status
    cmp,        \* one document with its completions, and what the API service
                \* and the script make of it
    mon         \* the frame of monitor_progress of the batch uploader

vars == <<log, papers, store, queue, run, resp, requests, ingested, qry, fl, report, cmp, mon>>

\* the Celery worker processes, the offline script, the API ingestion service
Workers == {"w1", "w2"}
Runners == Workers \cup {"sc", "sv"}

\* done is the history of the script's loop over the files: for every file
\* it has finished, <<file name, error caught, new_entries>>; force is the
\* force_rerun argument of the script's main
Idle == [pc |-> "idle", filename |-> <<>>, list |-> <<>>, i |-> 0, n |-> 0,
         trace |-> <<>>, err |-> "", res |-> "", todo |-> <<>>, done |-> <<>>,
         force |-> FALSE]

\* no completion has been received
NoReply == [form |-> "none", obj |-> Null]

\* the /suggest frame before the first request; freply and greply are the
\* completions of the feasibility call and of the generation call
NoQuery == [pc |-> "idle", feas |-> "", is_plausible |-> Null, reasoning |-> Null,
            trace |-> <<>>, documents |-> <<>>, generation_mode |-> "",
            sources |-> <<>>, suggestion |-> Null, exc |-> "", detail |-> <<>>,
            status |-> 0, freply |-> NoReply, greply |-> NoReply]

\* no record is being flattened
NoFlat == [pc |-> "idle", version |-> "", a |-> <<>>, b |-> <<>>,
           fa |-> <<>>, fb |-> <<>>, ffa |-> <<>>]

\* no document is being compared
NoCompare == [pc |-> "idle", filename |-> <<>>, reply1 |-> NoReply, replies2 |-> <<>>,
              replace |-> FALSE, service |-> <<>>, script |-> <<>>]

\* no status has been asked for
NoReport == [total_papers_in_directory |-> 0, total_papers_processed |-> 0,
             processed_files |-> <<>>, answered |-> FALSE]

\* monitor_progress has not been called; round is the parity of the number
\* of rounds its loop has slept through
NoMonitor == [pc |-> "idle", total_in_dir |-> 0, processed_count |-> 0, round |-> 0]

NoResp == [message |-> "none", file |-> <<>>, files_accepted |-> 0, filenames |-> <<>>,
           batch |-> <<>>]

Init ==
    /\ log = <<>>
    /\ papers = {<<"a">>}
    /\ store = {}
    /\ queue = <<>>
    /\ run = [r \in Runners |-> Idle]
    /\ resp = NoResp
    /\ requests = 0
    /\ ingested = {}
    /\ qry = NoQuery
    /\ fl = NoFlat
    /\ report = NoReport
    /\ cmp = NoCompare
    /\ mon = NoMonitor

\* the entry ids in the collection
StoreIds == {e[1] : e \in store}

\* collection.add(ids=[id], metadatas=[meta]): a new id is added; for an id
\* already present the store either keeps the old record or takes the new one
CollectionAdd(coll, id, meta, replace) ==
    IF \E e \in coll : e[1] = id
    THEN IF replace
         THEN {e \in coll : e[1] # id} \cup {<<id, meta>>}
         ELSE coll
    ELSE coll \cup {<<id, meta>>}

(***************************************************************************)
(* API endpoints (app/api/endpoints.py).                                   *)
(***************************************************************************)
\* get_processed_files: the set of the log's stripped lines
get_processed_files == {Strip(log[k]) : k \in 1..Len(log)}

\* POST /ingest/file
ingest_single_file(filename, decodable) ==
    /\ requests' = requests + 1
    /\ IF filename \in get_processed_files
       THEN /\ resp' = [message |-> "skipped", file |-> filename, files_accepted |-> 0,
                        filenames |-> <<>>, batch |-> <<>>]
            /\ UNCHANGED <<papers, queue>>
       ELSE /\ papers' = papers \cup {filename}
            /\ IF decodable
               THEN /\ queue' = Append(queue, filename)
                    /\ resp' = [message |-> "accepted", file |-> filename,
                                files_accepted |-> 1, filenames |-> <<filename>>,
                                batch |-> <<>>]
               ELSE \* file_content_bytes.decode('utf-8') raises: HTTP 500
                    /\ queue' = queue
                    /\ resp' = [message |-> "error", file |-> filename,
                                files_accepted |-> 0, filenames |-> <<>>,
                                batch |-> <<>>]
    /\ UNCHANGED <<log, store, run, ingested, qry, fl, report, cmp, mon>>

\* the loop of ingest_batch_files (143-156) over the <<file name, decodable>>
\* pairs of the request: a duplicate is skipped, a new file is saved, decoded
\* and dispatched; a content that cannot be decoded raises out of the loop
RECURSIVE BatchLoop(_, _, _)
BatchLoop(files, processed_files, acc) ==
    IF files = <<>> THEN acc
    ELSE LET filename == Head(files)[1]
             decodable == Head(files)[2]
             saved == [acc EXCEPT !.papers = @ \cup {filename}]
         IN  IF filename \in processed_files
             THEN BatchLoop(Tail(files), processed_files, acc)
             ELSE IF ~decodable THEN [saved EXCEPT !.raised = TRUE]
             ELSE BatchLoop(Tail(files), processed_files,
                            [saved EXCEPT !.queue = Append(@, filename),
                                          !.accepted = Append(@, filename)])

\* POST /ingest/files
ingest_batch_files(files) ==
    /\ requests' = requests + 1
    /\ LET out == BatchLoop(files, get_processed_files,
                            [papers |-> papers, queue |-> queue,
                             accepted |-> <<>>, raised |-> FALSE])
       IN  /\ papers' = out.papers
           /\ queue' = out.queue
           /\ resp' = IF out.raised
                      THEN \* the exception leaves the handler: HTTP 500
                           [message |-> "error", file |-> <<>>, files_accepted |-> 0,
                            filenames |-> <<>>, batch |-> files]
                      ELSE IF out.accepted = <<>>
                      THEN [message |-> "skipped", file |-> <<>>, files_accepted |-> 0,
                            filenames |-> <<>>, batch |-> files]
                      ELSE [message |-> "accepted", file |-> <<>>,
                            files_accepted |-> Len(out.accepted),
                            filenames |-> out.accepted, batch |-> files]
    /\ UNCHANGED <<log, store, run, ingested, qry, fl, report, cmp, mon>>

(***************************************************************************)
(* Celery worker (celery_worker.py): process_paper_task.                   *)
(***************************************************************************)
SetRun(r, frame) == run' = [run EXCEPT ![r] = frame]

\* the worker takes the next message and initializes its clients (115-136)
TaskStart(w, initOk) ==
    /\ run[w].pc = "idle"
    /\ queue # <<>>
    /\ queue' = Tail(queue)
    /\ IF initOk
       THEN SetRun(w, [Idle EXCEPT !.pc = "s1", !.filename = Head(queue)])
       ELSE \* client initialization failed: raise e
            SetRun(w, [Idle EXCEPT !.pc = "raised", !.filename = Head(queue),
                                   !.err = "init"])
    /\ UNCHANGED <<log, papers, store, resp, requests, ingested, qry, fl, report, cmp, mon>>

\* the frame after a step that raised inside the task's try block
Raised(frame, why) == [frame EXCEPT !.pc = "except", !.err = why]

\* the temperature argument of the completion calls: 0.0 in the task (145,
\* 168) and in the script (171, 201); the API service passes none (104-108,
\* 134-138), so the provider's default applies
WorkerTemperature == "0.0"
ScriptTemperature == "0.0"
ServiceTemperature == "default"

\* Stage 1 of the task (138-154)
\* "No syntheses found": the early return (149-152)
NoSynthesesFallsThrough(f) == [f EXCEPT !.pc = "mark"]
NoSyntheses(f) == [f EXCEPT !.pc = "ret", !.res = "no_syntheses"]

WorkerStage1Frame(f, reply) ==
    LET called == [f EXCEPT !.trace = Append(@, <<"s1", ReplyClass(reply),
                                                  WorkerTemperature>>)]
        parsed == robust_json_loads(reply)
        \* (robust_json_loads(...) or {}).get("syntheses", [])
        obj == IF parsed.st = "ok" /\ Truthy(parsed.val) THEN parsed.val.v ELSE <<>>
        synthesis_list == DictGet(Lookup(obj, K_syntheses), List(<<>>))
    IN  IF reply.form = "error" THEN Raised(called, "completion")
        ELSE IF parsed.st = "raise" THEN Raised(called, "type")
        ELSE IF ~Truthy(synthesis_list)
        THEN NoSyntheses(called)
        ELSE [called EXCEPT !.pc = "loop", !.list = synthesis_list.v, !.i = 1]

WorkerStage1(w, reply) ==
    /\ run[w].pc = "s1"
    /\ SetRun(w, WorkerStage1Frame(run[w], reply))
    /\ UNCHANGED <<log, papers, store, queue, resp, requests, ingested, qry, fl, report, cmp, mon>>

\* the document_chunk f-string of the task and of the API service:
\* structured_data.get('metal_source', {}).get(...) fails on a value that is
\* no dictionary, ', '.join(structured_data.get('solvent') or []) on a truthy
\* value that is no list of strings
ChunkRaises(data) ==
    LET metal == DictGet(Lookup(data, K_metal_source), Dict(<<>>))
        linker == DictGet(Lookup(data, K_organic_linker), Dict(<<>>))
        solvent == Lookup(data, K_solvent)
    IN  \/ metal.t # "dict"
        \/ linker.t # "dict"
        \/ /\ Truthy(solvent)
           /\ ~ \/ solvent.t = "str"
                \/ solvent.t = "list" /\ \A k \in 1..Len(solvent.v) : solvent.v[k].t = "str"

\* unique_id of the task (161)
WorkerUniqueIdNameOnly(filename, mof_name) ==
    Replace(Replace(mof_name, " ", "_"), "/", "_")
WorkerUniqueId(filename, mof_name) ==
    filename \o <<"_">> \o Replace(Replace(mof_name, " ", "_"), "/", "_")

\* the next frame of a loop that has finished candidate i
NextCandidateStays(f) ==
    [f EXCEPT !.pc = IF f.i + 1 > Len(f.list) THEN "mark" ELSE "loop"]
NextCandidate(f) ==
    [f EXCEPT !.i = @ + 1, !.pc = IF f.i + 1 > Len(f.list) THEN "mark" ELSE "loop"]

\* "Skipping entry ... due to parsing error": continue (172-173)
SkipEntryAborts(f) == [f EXCEPT !.pc = "except", !.err = "value"]
SkipEntry(f) == NextCandidate(f)

\* one iteration of the Stage-2 loop of the task (157-196): the frame it
\* leaves and the collection it leaves
WorkerCandidate(f, coll, reply, addOk, replace) ==
    LET s_info == f.list[f.i].v
        mof_name == DictGet(Lookup(s_info, K_mof_name), Str(<<"s", "_">> \o IntStr(f.i)))
        exp_text == Lookup(s_info, K_experimental_text)
        called == [f EXCEPT !.trace = Append(@, <<"s2", f.i, ReplyClass(reply),
                                                  WorkerTemperature>>)]
        parsed == robust_json_loads(reply)
        structured_data == SetItem(parsed.val.v, K_mof_name, mof_name)
        unique_id == WorkerUniqueId(f.filename, mof_name.v)
        metadata_for_db == flatten_metadata(structured_data)
        stored == [called EXCEPT !.trace = @ \o << <<"add", f.i, unique_id,
                                                     metadata_for_db>>,
                                                   <<"sleep">> >>,
                                 !.n = @ + 1]
    IN  IF ~Truthy(exp_text) THEN <<NextCandidate(f), coll>>
        ELSE IF mof_name.t # "str" THEN <<Raised(f, "attribute"), coll>>
        ELSE IF reply.form = "error" THEN <<Raised(called, "completion"), coll>>
        ELSE IF parsed.st = "raise" THEN <<Raised(called, "type"), coll>>
        ELSE IF parsed.st = "none" \/ ~Truthy(parsed.val)
        THEN <<SkipEntry(called), coll>>
        ELSE IF ChunkRaises(structured_data) THEN <<Raised(called, "attribute"), coll>>
        ELSE IF ~addOk THEN <<Raised(called, "storage"), coll>>
        ELSE <<NextCandidate(stored),
               CollectionAdd(coll, unique_id, metadata_for_db, replace)>>

WorkerLoop(w, reply, addOk, replace) ==
    /\ run[w].pc = "loop"
    /\ LET after == WorkerCandidate(run[w], store, reply, addOk, replace)
       IN  /\ SetRun(w, after[1])
           /\ store' = after[2]
    /\ UNCHANGED <<log, papers, queue, resp, requests, ingested, qry, fl, report, cmp, mon>>

\* after the loop: the processed log is appended and the task returns (198-205)
WorkerMarkLog(lines, f) == Append(lines, f.filename)

WorkerMark(w) ==
    /\ run[w].pc = "mark"
    /\ log' = WorkerMarkLog(log, run[w])
    /\ SetRun(w, [run[w] EXCEPT !.pc = "ret", !.res = "success"])
    /\ ingested' = IF run[w].n > 0 THEN ingested \cup {run[w].filename} ELSE ingested
    /\ UNCHANGED <<papers, store, queue, resp, requests, qry, fl, report, cmp, mon>>

\* the handler of the task's try block re-raises (207-210)
WorkerExcept(w) ==
    /\ run[w].pc = "except"
    /\ SetRun(w, [run[w] EXCEPT !.pc = "raised"])
    /\ UNCHANGED <<log, papers, store, queue, resp, requests, ingested, qry, fl, report, cmp, mon>>

\* the task has returned or raised: the worker is free again
WorkerDone(w) ==
    /\ run[w].pc \in {"ret", "raised"}
    /\ SetRun(w, Idle)
    /\ UNCHANGED <<log, papers, store, queue, resp, requests, ingested, qry, fl, report, cmp, mon>>

(***************************************************************************)
(* API ingestion service (app/core/ingestion_service.py):                  *)
(* IngestionService.process_and_store_paper.  Its caller is not part of    *)
(* the repository: a call may come at any time, for any document.          *)
(***************************************************************************)
ServiceCall(filename) ==
    /\ run["sv"].pc = "idle"
    /\ requests' = requests + 1
    /\ SetRun("sv", [Idle EXCEPT !.pc = "s1", !.filename = filename])
    /\ UNCHANGED <<log, papers, store, queue, resp, ingested, qry, fl, report, cmp, mon>>

\* Stage 1 of the service (100-119) and of the script (164-184)
Stage1Frame(f, reply, temperature) ==
    LET called == [f EXCEPT !.trace = Append(@, <<"s1", ReplyClass(reply), temperature>>)]
        parsed == robust_json_loads(reply)
        synthesis_list == DictGet(Lookup(parsed.val.v, K_syntheses), List(<<>>))
    IN  IF reply.form = "error" THEN Raised(called, "completion")
        ELSE IF parsed.st = "raise" THEN Raised(called, "type")
        \* if not parsed_id_response: raise ValueError
        ELSE IF parsed.st = "none" \/ ~Truthy(parsed.val) THEN Raised(called, "value")
        ELSE IF ~Truthy(synthesis_list)
        THEN [called EXCEPT !.pc = "ret", !.res = "returned"]
        ELSE [called EXCEPT !.pc = "loop", !.list = synthesis_list.v, !.i = 1]

ServiceStage1(reply) ==
    /\ run["sv"].pc = "s1"
    /\ SetRun("sv", Stage1Frame(run["sv"], reply, ServiceTemperature))
    /\ UNCHANGED <<log, papers, store, queue, resp, requests, ingested, qry, fl, report, cmp, mon>>

SynthesisOrdinal(i) == Str(<<"s", "y", "n", "t", "h", "e", "s", "i", "s", "_">> \o IntStr(i))

\* unique_id of the service (129)
ServiceUniqueId(filename, mof_name) == filename \o <<"_">> \o Replace(mof_name, " ", "_")

\* the frame of a loop that has run off its list returns the count
NextOrReturn(f) ==
    [f EXCEPT !.i = @ + 1,
              !.pc = IF f.i + 1 > Len(f.list) THEN "ret" ELSE "loop",
              !.res = IF f.i + 1 > Len(f.list) THEN "returned" ELSE ""]

\* one iteration of the Stage-2 loop of the service (122-160)
ServiceCandidate(f, coll, reply, addOk, replace) ==
    LET s_info == f.list[f.i].v
        mof_name == DictGet(Lookup(s_info, K_mof_name), SynthesisOrdinal(f.i))
        exp_text == Lookup(s_info, K_experimental_text)
        called == [f EXCEPT !.trace = Append(@, <<"s2", f.i, ReplyClass(reply),
                                                  ServiceTemperature>>)]
        parsed == robust_json_loads(reply)
        structured_data == SetItem(parsed.val.v, K_mof_name, mof_name)
        unique_id == ServiceUniqueId(f.filename, mof_name.v)
        metadata_for_db == flatten_metadata(structured_data)
        stored == [called EXCEPT !.trace = @ \o << <<"add", f.i, unique_id,
                                                     metadata_for_db>>,
                                                   <<"sleep">> >>,
                                 !.n = @ + 1]
    IN  IF ~Truthy(exp_text) THEN <<NextOrReturn(f), coll>>
        ELSE IF mof_name.t # "str" THEN <<Raised(f, "attribute"), coll>>
        ELSE IF reply.form = "error" THEN <<Raised(called, "completion"), coll>>
        ELSE IF parsed.st = "raise" THEN <<Raised(called, "type"), coll>>
        ELSE IF parsed.st = "none" \/ ~Truthy(parsed.val)
        THEN <<NextOrReturn(called), coll>>
        ELSE IF ChunkRaises(structured_data) THEN <<Raised(called, "attribute"), coll>>
        ELSE IF ~addOk THEN <<Raised(called, "storage"), coll>>
        ELSE <<NextOrReturn(stored),
               CollectionAdd(coll, unique_id, metadata_for_db, replace)>>

ServiceLoop(reply, addOk, replace) ==
    /\ run["sv"].pc = "loop"
    /\ LET after == ServiceCandidate(run["sv"], store, reply, addOk, replace)
       IN  /\ SetRun("sv", after[1])
           /\ store' = after[2]
    /\ UNCHANGED <<log, papers, queue, resp, requests, ingested, qry, fl, report, cmp, mon>>

\* the handler of the service's and of the script's try block logs the error;
\* the function then returns successful_entries (service 162-166, script 228-232)
ExceptReraises(f) == [f EXCEPT !.pc = "raised"]
ExceptReturn(f) == [f EXCEPT !.pc = "ret", !.res = "returned"]

ServiceExcept ==
    /\ run["sv"].pc = "except"
    /\ SetRun("sv", ExceptReturn(run["sv"]))
    /\ UNCHANGED <<log, papers, store, queue, resp, requests, ingested, qry, fl, report, cmp, mon>>

\* the count is handed to the caller
ServiceDone ==
    /\ run["sv"].pc = "ret"
    /\ SetRun("sv", Idle)
    /\ UNCHANGED <<log, papers, store, queue, resp, requests, ingested, qry, fl, report, cmp, mon>>

(***************************************************************************)
(* Offline script (scripts/ingest_data.py).                                *)
(***************************************************************************)
\* flatten_metadata of the script keeps booleans (137)
SanitizeValueScript(value) ==
    CASE value.t = "null" -> Str(<<"N", "o", "n", "e">>)
      [] value.t \in {"str", "int", "bool"} -> value
      [] OTHER -> Str(PyStr(value))

flatten_metadata_script(data) ==
    LET flat == FlattenItems(<<>>, data)
    IN  [k \in 1..Len(flat) |-> <<flat[k][1], SanitizeValueScript(flat[k][2])>>]

\* a total order on characters and the lexicographic order sorted() uses
CharCode(c) == CASE c = " " -> 32 [] c = "/" -> 47 [] c = "_" -> 95 [] c = "a" -> 97
                 [] c = "b" -> 98 [] OTHER -> 120

RECURSIVE StrLess(_, _)
StrLess(x, y) ==
    IF x = <<>> THEN y # <<>>
    ELSE IF y = <<>> THEN FALSE
    ELSE IF Head(x) = Head(y) THEN StrLess(Tail(x), Tail(y))
    ELSE CharCode(Head(x)) < CharCode(Head(y))

RECURSIVE Sorted(_)
Sorted(S) ==
    IF S = {} THEN <<>>
    ELSE LET least == CHOOSE x \in S : \A y \in S \ {x} : StrLess(x, y)
         IN  <<least>> \o Sorted(S \ {least})

\* main up to the loop over the files (234-266): the forced reset, the read
\* of the processed log, the list of the new papers
FilesToProcess(lines, dir) == Sorted(dir \ {lines[k] : k \in 1..Len(lines)})

\* the processed log after the forced reset (248-255)
ResetLogKeeps(lines, force) == lines
ResetLog(lines, force) == IF force THEN <<>> ELSE lines

ScriptStart(force, deleted) ==
    /\ run["sc"].pc = "idle"
    /\ requests' = requests + 1
    /\ store' = IF force /\ deleted THEN {} ELSE store
    /\ log' = ResetLog(log, force)
    /\ SetRun("sc", [Idle EXCEPT !.pc = "main", !.todo = FilesToProcess(log', papers),
                                 !.force = force])
    /\ ingested' = IF force THEN {} ELSE ingested
    /\ UNCHANGED <<papers, queue, resp, qry, fl, report, cmp, mon>>

\* the loop over files_to_process takes the next file, or main ends (269-278)
ScriptNextFile ==
    /\ run["sc"].pc = "main"
    /\ IF run["sc"].todo = <<>>
       THEN SetRun("sc", Idle)
       ELSE SetRun("sc", [Idle EXCEPT !.pc = "s1", !.filename = Head(run["sc"].todo),
                                      !.todo = run["sc"].todo,
                                      !.done = run["sc"].done,
                                      !.force = run["sc"].force])
    /\ UNCHANGED <<log, papers, store, queue, resp, requests, ingested, qry, fl, report, cmp, mon>>

ScriptStage1(reply) ==
    /\ run["sc"].pc = "s1"
    /\ SetRun("sc", Stage1Frame(run["sc"], reply, ScriptTemperature))
    /\ UNCHANGED <<log, papers, store, queue, resp, requests, ingested, qry, fl, report, cmp, mon>>

\* unique_id of the script (192): the replace covers the file name too
ScriptUniqueId(filename, mof_name) ==
    Replace(filename \o <<"_">> \o ScalarStr(mof_name), " ", "_")

\* one iteration of the Stage-2 loop of the script (187-226)
ScriptCandidate(f, coll, reply, addOk, replace) ==
    LET s_info == f.list[f.i].v
        mof_name == DictGet(Lookup(s_info, K_mof_name), SynthesisOrdinal(f.i))
        unique_id == ScriptUniqueId(f.filename, mof_name)
        called == [f EXCEPT !.trace = Append(@, <<"s2", f.i, ReplyClass(reply),
                                                  ScriptTemperature>>)]
        parsed == robust_json_loads(reply)
        structured_data == SetItem(parsed.val.v, K_mof_name, mof_name)
        metadata_for_db == flatten_metadata_script(structured_data)
        stored == [called EXCEPT !.trace = @ \o << <<"add", f.i, unique_id,
                                                     metadata_for_db>>,
                                                   <<"sleep">> >>,
                                 !.n = @ + 1]
    IN  IF reply.form = "error" THEN <<Raised(called, "completion"), coll>>
        ELSE IF parsed.st = "raise" THEN <<Raised(called, "type"), coll>>
        ELSE IF parsed.st = "none" \/ ~Truthy(parsed.val)
        THEN <<NextOrReturn(called), coll>>
        ELSE IF ~addOk THEN <<Raised(called, "storage"), coll>>
        ELSE <<NextOrReturn(stored),
               CollectionAdd(coll, unique_id, metadata_for_db, replace)>>

ScriptLoop(reply, addOk, replace) ==
    /\ run["sc"].pc = "loop"
    /\ LET after == ScriptCandidate(run["sc"], store, reply, addOk, replace)
       IN  /\ SetRun("sc", after[1])
           /\ store' = after[2]
    /\ UNCHANGED <<log, papers, queue, resp, requests, ingested, qry, fl, report, cmp, mon>>

ScriptExcept ==
    /\ run["sc"].pc = "except"
    /\ SetRun("sc", ExceptReturn(run["sc"]))
    /\ UNCHANGED <<log, papers, store, queue, resp, requests, ingested, qry, fl, report, cmp, mon>>

\* back in main (272-276): the file is logged when new_entries > 0
ScriptMarkLog(lines, f) == IF f.n > 0 THEN Append(lines, f.filename) ELSE lines

\* the for loop goes on with the files after this one
RemainingAfterFailure(f) == IF f.err # "" THEN <<>> ELSE Tail(f.todo)
RemainingFiles(f) == Tail(f.todo)

ScriptAfterFile ==
    /\ run["sc"].pc = "ret"
    /\ log' = ScriptMarkLog(log, run["sc"])
    /\ SetRun("sc", [Idle EXCEPT !.pc = "main", !.todo = RemainingFiles(run["sc"]),
                                 !.done = Append(run["sc"].done,
                                                 <<run["sc"].filename, run["sc"].err,
                                                   run["sc"].n>>),
                                 !.force = run["sc"].force])
    /\ ingested' = IF run["sc"].n > 0 THEN ingested \cup {run["sc"].filename} ELSE ingested
    /\ UNCHANGED <<papers, store, queue, resp, requests, qry, fl, report, cmp, mon>>

(***************************************************************************)
(* GET /ingest/status (app/api/endpoints.py).                              *)
(***************************************************************************)
\* get_ingestion_status (72-84): the number of papers in the directory, the
\* sorted list of the processed files and its length
IngestionStatus ==
    LET processed == Sorted(get_processed_files)
    IN  [total_papers_in_directory |-> Cardinality(papers),
         total_papers_processed |-> Len(processed),
         processed_files |-> processed,
         answered |-> TRUE]

get_ingestion_status ==
    /\ report' = IngestionStatus
    /\ UNCHANGED <<log, papers, store, queue, run, resp, requests, ingested, qry, fl, cmp, mon>>

(***************************************************************************)
(* The batch uploader (scripts/batch_uploader.py): after its uploads, main *)
(* calls monitor_progress, which polls GET /ingest/status.                 *)
(***************************************************************************)
\* the first request and the test of the directory (62-67); a request that
\* fails raises RequestException, which ends the function (84-85)
MonitorStart(netOk) ==
    /\ mon.pc = "idle"
    /\ requests > 0
    /\ LET initial_status == IngestionStatus
           total_in_dir == initial_status.total_papers_in_directory
       IN  mon' = IF ~netOk THEN [mon EXCEPT !.pc = "error"]
                  ELSE IF total_in_dir = 0 THEN [mon EXCEPT !.pc = "returned"]
                  ELSE [mon EXCEPT !.pc = "poll", !.total_in_dir = total_in_dir]
    /\ UNCHANGED <<log, papers, store, queue, run, resp, requests, ingested, qry, fl,
                   report, cmp>>

\* one round of the while loop (71-80): the status is asked for; the loop is
\* left only when processed_count >= total_in_dir (77-78), otherwise the
\* function sleeps five seconds
MonitorPoll(netOk) ==
    /\ mon.pc = "poll"
    /\ LET current_status == IngestionStatus
           processed_count == current_status.total_papers_processed
       IN  mon' = IF ~netOk THEN [mon EXCEPT !.pc = "error"]
                  ELSE IF processed_count >= mon.total_in_dir
                  THEN [mon EXCEPT !.pc = "done", !.processed_count = processed_count]
                  ELSE [mon EXCEPT !.processed_count = processed_count,
                                   !.round = 1 - @]
    /\ UNCHANGED <<log, papers, store, queue, run, resp, requests, ingested, qry, fl,
                   report, cmp>>

MonitorStep == \E netOk \in BOOLEAN : MonitorStart(netOk) \/ MonitorPoll(netOk)

(***************************************************************************)
(* The query path: app/core/rag_service.py behind POST /suggest.            *)
(***************************************************************************)
K_is_plausible == <<"is", "plausible">>
K_reasoning == <<"reasoning">>
K_suggested_protocol == <<"suggested", "protocol">>

\* json.loads without repair: content that needs repair or is broken raises
\* JSONDecodeError, no content raises TypeError
json_loads(content) ==
    CASE content.form = "direct" -> [st |-> "ok", val |-> content.obj, exc |-> ""]
      [] content.form = "null" -> [st |-> "raise", val |-> Null, exc |-> "TypeError"]
      [] OTHER -> [st |-> "raise", val |-> Null, exc |-> "JSONDecodeError"]

\* the answers of the feasibility checker and of the generation call
Reason == Str(<<"r">>)
FeasibilityObjs ==
    {Dict(<< <<K_is_plausible, Bool(TRUE)>>, <<K_reasoning, Reason>> >>),
     Dict(<< <<K_is_plausible, Bool(FALSE)>>, <<K_reasoning, Reason>> >>),
     Dict(<< <<K_is_plausible, Null>> >>),
     Dict(<< <<K_reasoning, Reason>> >>),
     List(<<>>)}
FeasibilityReplies == Completions(FeasibilityObjs)
GenerationObjs ==
    {Dict(<< <<K_suggested_protocol, Dict(<< <<K_reasoning, Reason>> >>)>> >>),
     Dict(<<>>),
     Dict(<< <<K_suggested_protocol, Reason>> >>),
     List(<<>>)}
GenerationReplies == Completions(GenerationObjs)

\* what the feasibility completion is: the call raised, it has no content,
\* its content is no JSON text as it stands, it is JSON but no object, it is
\* an object without the key is_plausible, or it is an object with the key
FeasClass(reply) ==
    CASE reply.form \in {"error", "null"} -> reply.form
      [] reply.form \in {"broken", "repair"} -> "unparsed"
      [] reply.obj.t # "dict" -> "nondict"
      [] ~HasKey(reply.obj.v, K_is_plausible) -> "nokey"
      [] OTHER -> "dict"

Diagnostic == Str(<<"Feasibility check failed, proceeding with caution.">>)
NoReasoning == Str(<<"No reasoning provided.">>)

\* the try block of _check_feasibility (66-84)
FeasibilityBody(reply) ==
    LET result == json_loads(reply)
        failed(exc) == [st |-> "raise", exc |-> exc,
                        is_plausible |-> Null, reasoning |-> Null]
    IN  IF reply.form = "error" THEN failed("Exception")
        ELSE IF result.st = "raise" THEN failed(result.exc)
        ELSE IF result.val.t # "dict" THEN failed("AttributeError")
        ELSE [st |-> "ok", exc |-> "",
              is_plausible |-> DictGet(Lookup(result.val.v, K_is_plausible), Bool(FALSE)),
              reasoning |-> DictGet(Lookup(result.val.v, K_reasoning), NoReasoning)]

\* _check_feasibility (54-88): any exception of the body is answered by
\* (True, diagnostic)
CheckFeasibilityPropagates(reply) == FeasibilityBody(reply)
check_feasibility(reply) ==
    LET body == FeasibilityBody(reply)
    IN  IF body.st = "raise"
        THEN [st |-> "ok", exc |-> "",
              is_plausible |-> Bool(TRUE), reasoning |-> Diagnostic]
        ELSE body

\* `if not is_plausible` (147)
NeverImplausible(is_plausible) == FALSE
Implausible(is_plausible) == ~Truthy(is_plausible)

ImplausibleDetail(reasoning) ==
    <<"The request is considered chemically implausible. Reason: ">> \o PyStr(reasoning)

\* n_results of collection.query (109)
n_results == 3

Min(a, b) == IF a < b THEN a ELSE b

\* the results of a query: the nearest entries, at most n_results of them,
\* in the order of their distance, which is any order
Retrieved(coll) ==
    {h \in SeqsUpTo(coll, Min(n_results, Cardinality(coll))) :
        /\ Len(h) = Min(n_results, Cardinality(coll))
        /\ \A j, k \in 1..Len(h) : j # k => h[j] # h[k]}

Metadatas(hits) == [k \in 1..Len(hits) |-> hits[k][2]]

\* the collection after collection.query (109): a query only reads
CollectionQueryEvicts(coll, hits) == coll \ {hits[k] : k \in 1..Len(hits)}
CollectionQuery(coll, hits) == coll

\* the choice of the generation mode (115-122)
AlwaysRag(documents, metadatas) ==
    [generation_mode |-> "RAG_BASED", sources |-> metadatas]
ModeAndSources(documents, metadatas) ==
    IF documents # <<>>
    THEN [generation_mode |-> "RAG_BASED", sources |-> metadatas]
    ELSE [generation_mode |-> "LLM_FALLBACK", sources |-> <<>>]

QueryRetried(f, exc, detail) == [f EXCEPT !.pc = "gate1"]
QueryRaised(f, exc, detail) == [f EXCEPT !.pc = "raised", !.exc = exc, !.detail = detail]

\* POST /suggest arrives (44-51)
QueryStart ==
    /\ qry.pc \in {"idle", "responded"}
    /\ qry' = [NoQuery EXCEPT !.pc = "gate1"]
    /\ UNCHANGED <<log, papers, store, queue, run, resp, requests, ingested, fl, report, cmp, mon>>

\* query_synthesis_method, gate 1 (145-149)
Gate1Frame(f, reply) ==
    LET check == check_feasibility(reply)
        called == [f EXCEPT !.feas = FeasClass(reply), !.freply = reply,
                            !.trace = Append(@, "feasibility")]
        checked == [called EXCEPT !.is_plausible = check.is_plausible,
                                  !.reasoning = check.reasoning]
    IN  IF check.st = "raise" THEN QueryRaised(called, check.exc, <<>>)
        ELSE IF Implausible(check.is_plausible)
        THEN QueryRaised(checked, "ValueError", ImplausibleDetail(check.reasoning))
        ELSE [checked EXCEPT !.pc = "gate2"]

QueryFeasibility(reply) ==
    /\ qry.pc = "gate1"
    /\ qry' = Gate1Frame(qry, reply)
    /\ UNCHANGED <<log, papers, store, queue, run, resp, requests, ingested, fl, report, cmp, mon>>

\* _generate_synthesis_protocol up to the choice of the mode (103-122)
RetrieveFrame(f, embedOk, queryOk, hits) ==
    LET embedded == [f EXCEPT !.trace = Append(@, "embed")]
        queried == [embedded EXCEPT !.trace = Append(@, "query")]
        chosen == ModeAndSources(hits, Metadatas(hits))
    IN  IF ~embedOk THEN QueryRaised(embedded, "Exception", <<>>)
        ELSE IF ~queryOk THEN QueryRaised(queried, "Exception", <<>>)
        ELSE [queried EXCEPT !.pc = "gen", !.documents = hits,
                             !.generation_mode = chosen.generation_mode,
                             !.sources = chosen.sources]

QueryRetrieve(embedOk, queryOk) ==
    /\ qry.pc = "gate2"
    /\ \E hits \in Retrieved(store) :
          /\ qry' = RetrieveFrame(qry, embedOk, queryOk, hits)
          /\ store' = IF embedOk THEN CollectionQuery(store, hits) ELSE store
    /\ UNCHANGED <<log, papers, queue, run, resp, requests, ingested, fl, report, cmp, mon>>

\* the generation call and the result (124-138)
GenerateFrame(f, reply) ==
    LET called == [f EXCEPT !.trace = Append(@, "generate"), !.greply = reply]
        suggestion_json == json_loads(reply)
    IN  IF reply.form = "error" THEN QueryRaised(called, "Exception", <<>>)
        ELSE IF suggestion_json.st = "raise"
        THEN QueryRaised(called, suggestion_json.exc, <<>>)
        ELSE IF suggestion_json.val.t # "dict"
        THEN QueryRaised(called, "AttributeError", <<>>)
        ELSE [called EXCEPT !.pc = "done",
                  !.suggestion = DictGet(Lookup(suggestion_json.val.v,
                                                K_suggested_protocol), Dict(<<>>))]

QueryGenerate(reply) ==
    /\ qry.pc = "gen"
    /\ qry' = GenerateFrame(qry, reply)
    /\ UNCHANGED <<log, papers, store, queue, run, resp, requests, ingested, fl, report, cmp, mon>>

\* suggest_synthesis_protocol (52-61): the result is validated as a
\* SynthesisResponse, whose ValidationError is a ValueError as is
\* JSONDecodeError; ValueError answers 400, any other exception 500
SuggestStatus(f) ==
    IF f.pc = "done"
    THEN IF f.suggestion.t = "dict" THEN 200 ELSE 400
    ELSE IF f.exc \in {"ValueError", "JSONDecodeError"} THEN 400 ELSE 500

QueryRespond ==
    /\ qry.pc \in {"done", "raised"}
    /\ qry' = [qry EXCEPT !.pc = "responded", !.status = SuggestStatus(qry)]
    /\ UNCHANGED <<log, papers, store, queue, run, resp, requests, ingested, fl, report, cmp, mon>>

QueryStep ==
    \/ QueryStart
    \/ \E reply \in FeasibilityReplies : QueryFeasibility(reply)
    \/ \E embedOk \in BOOLEAN, queryOk \in BOOLEAN : QueryRetrieve(embedOk, queryOk)
    \/ \E reply \in GenerationReplies : QueryGenerate(reply)
    \/ QueryRespond

(***************************************************************************)
(* flatten_metadata as a function of the record: the records it is given   *)
(* and what its copies make of them.                                       *)
(***************************************************************************)
K_temperature_celsius == <<"temperature", "celsius">>

\* the values of "solvent": "list of strings or null"
SolventChoices ==
    {Null, List(<<>>), List(<<Str(<<"D">>)>>), List(<<Str(<<"D">>), Str(<<"W">>)>>),
     List(<<Str(<<"D", ",", " ", "W">>)>>), List(<<Str(<<"N", "o", "n", "e">>)>>)}

\* entries that follow the schema of the Stage-2 prompt
FlatRecords ==
    {Dict(<< <<K_mof_name, Str(<<"M">>)>>,
             <<K_metal_source, Dict(<< <<K_formula, f>> >>)>>,
             <<K_solvent, s>>,
             <<K_temperature_celsius, t>> >>) :
        f \in {Str(<<"C", "u">>), Null}, s \in SolventChoices, t \in {Num(5), Null}}

\* records off the schema: a boolean, a list inside a nested dictionary
OddRecords ==
    {Dict(<< <<K_name, Bool(TRUE)>>,
             <<K_metal_source, Dict(<< <<K_formula, List(<<Str(<<"D">>)>>)>> >>)>> >>)}

\* the copy of the worker and of the API service ("service"; the two are
\* the same code) and the copy of the script ("script")
FlattenVersions == {"service", "script"}
Flatten(version, data) ==
    IF version = "script" THEN flatten_metadata_script(data) ELSE flatten_metadata(data)

InitFlatten ==
    /\ log = <<>>
    /\ papers = {<<"a">>}
    /\ store = {}
    /\ queue = <<>>
    /\ run = [r \in Runners |-> Idle]
    /\ resp = NoResp
    /\ requests = 0
    /\ ingested = {}
    /\ qry = NoQuery
    /\ report = NoReport
    /\ cmp = NoCompare
    /\ mon = NoMonitor
    /\ fl \in {[NoFlat EXCEPT !.pc = "in", !.a = x.v, !.b = y.v] :
                  x \in FlatRecords \cup OddRecords, y \in FlatRecords \cup OddRecords}

\* metadata_for_db = flatten_metadata(structured_data), for both records
FlattenOnce(version) ==
    /\ fl.pc = "in"
    /\ fl' = [fl EXCEPT !.pc = "once", !.version = version,
                        !.fa = Flatten(version, fl.a), !.fb = Flatten(version, fl.b)]
    /\ UNCHANGED <<log, papers, store, queue, run, resp, requests, ingested, qry, report, cmp, mon>>

\* the flattened mapping is flattened again
FlattenTwice ==
    /\ fl.pc = "once"
    /\ fl' = [fl EXCEPT !.pc = "twice", !.ffa = Flatten(fl.version, fl.fa)]
    /\ UNCHANGED <<log, papers, store, queue, run, resp, requests, ingested, qry, report, cmp, mon>>

NextFlatten ==
    \/ \E version \in FlattenVersions : FlattenOnce(version)
    \/ FlattenTwice

SpecFlatten == InitFlatten /\ [][NextFlatten]_vars

(***************************************************************************)
(* The API service and the script as functions of a document and of its   *)
(* completions: what each stores in an empty collection, what it returns.  *)
(***************************************************************************)
\* number of Stage-2 completions held ready for a run, and longest
\* "syntheses" list of its Stage-1 reply
MaxCmpCands == 2

CompareVersions == {"service", "script"}

\* the Stage-2 loop run to its end: a completion is consumed by every
\* Stage-2 call; every store write succeeds
RECURSIVE LoopAll(_, _, _, _, _)
LoopAll(version, f, coll, replies, replace) ==
    IF f.pc # "loop" THEN <<f, coll>>
    ELSE LET reply == IF replies = <<>> THEN [form |-> "error", obj |-> Null]
                      ELSE Head(replies)
             after == IF version = "script"
                      THEN ScriptCandidate(f, coll, reply, TRUE, replace)
                      ELSE ServiceCandidate(f, coll, reply, TRUE, replace)
             called == \E j \in 1..Len(after[1].trace) :
                          after[1].trace[j][1] = "s2" /\ after[1].trace[j][2] = f.i
         IN  LoopAll(version, after[1], after[2],
                     IF called /\ replies # <<>> THEN Tail(replies) ELSE replies,
                     replace)

\* process_and_store_paper / process_paper_for_all_syntheses on an empty
\* collection: the count returned and the collection left
RunOf(version, filename, reply1, replies2, replace) ==
    LET start == [Idle EXCEPT !.pc = "s1", !.filename = filename]
        temperature == IF version = "script" THEN ScriptTemperature
                       ELSE ServiceTemperature
        end == LoopAll(version, Stage1Frame(start, reply1, temperature), {}, replies2,
                       replace)
    IN  [count |-> end[1].n, collection |-> end[2]]

SeqsOfLen(S, n) == {q \in SeqsUpTo(S, n) : Len(q) = n}

InitCompare ==
    /\ log = <<>>
    /\ papers = {<<"a">>}
    /\ store = {}
    /\ queue = <<>>
    /\ run = [r \in Runners |-> Idle]
    /\ resp = NoResp
    /\ requests = 0
    /\ ingested = {}
    /\ qry = NoQuery
    /\ fl = NoFlat
    /\ report = NoReport
    /\ mon = NoMonitor
    /\ cmp \in {[NoCompare EXCEPT !.pc = "in", !.filename = d, !.reply1 = r1,
                                   !.replies2 = rs, !.replace = rp] :
                   d \in Docs, r1 \in Stage1Replies(Cands, MaxCmpCands),
                   rs \in SeqsOfLen(Stage2Replies(Entries \cup {Dict(<<>>)}), MaxCmpCands),
                   rp \in BOOLEAN}

\* one of the two pipelines processes the document
CompareRun(version) ==
    /\ cmp.pc \in {"in", "one"}
    /\ cmp[version] = <<>>
    /\ cmp' = [cmp EXCEPT !.pc = IF cmp.pc = "in" THEN "one" ELSE "both",
                          ![version] = <<RunOf(version, cmp.filename, cmp.reply1,
                                               cmp.replies2, cmp.replace)>>]
    /\ UNCHANGED <<log, papers, store, queue, run, resp, requests, ingested, qry, fl,
                   report, mon>>

NextCompare == \E version \in CompareVersions : CompareRun(version)

SpecCompare == InitCompare /\ [][NextCompare]_vars

(***************************************************************************)
(* Specifications.                                                         *)
(***************************************************************************)
\* the steps of the Celery worker once a task is queued
WorkerStep(replies1, replies2) ==
    \/ \E initOk \in BOOLEAN : TaskStart("w1", initOk)
    \/ \E reply \in replies1 : WorkerStage1("w1", reply)
    \/ \E reply \in replies2, addOk \in BOOLEAN, replace \in BOOLEAN :
          WorkerLoop("w1", reply, addOk, replace)
    \/ WorkerMark("w1")
    \/ WorkerExcept("w1")
    \/ WorkerDone("w1")

\* the steps of a second worker process
SecondWorkerStep(replies1, replies2) ==
    \/ \E initOk \in BOOLEAN : TaskStart("w2", initOk)
    \/ \E reply \in replies1 : WorkerStage1("w2", reply)
    \/ \E reply \in replies2, addOk \in BOOLEAN, replace \in BOOLEAN :
          WorkerLoop("w2", reply, addOk, replace)
    \/ WorkerMark("w2")
    \/ WorkerExcept("w2")
    \/ WorkerDone("w2")

\* the steps of the offline script once it is started
ScriptStep(replies1, replies2) ==
    \/ ScriptNextFile
    \/ \E reply \in replies1 : ScriptStage1(reply)
    \/ \E reply \in replies2, addOk \in BOOLEAN, replace \in BOOLEAN :
          ScriptLoop(reply, addOk, replace)
    \/ ScriptExcept
    \/ ScriptAfterFile

RunStep(replies1, replies2) ==
    \/ WorkerStep(replies1, replies2)
    \/ ScriptStep(replies1, replies2)

\* an external request: an upload, or a start of the script
Upload == \E d \in Docs, decodable \in BOOLEAN : ingest_single_file(d, decodable)
ScriptRequest == \E force \in BOOLEAN, deleted \in BOOLEAN : ScriptStart(force, deleted)

\* uploads, the worker and the script, interleaved
Next ==
    \/ requests < MaxRequests /\ Upload
    \/ requests < MaxRequests /\ ScriptRequest
    \/ RunStep(Stage1Replies(FewCands, MaxCands), Stage2Replies(FewEntries))

Spec == Init /\ [][Next]_vars

\* the steps of the API ingestion service
ServiceStep(replies1, replies2) ==
    \/ \E reply \in replies1 : ServiceStage1(reply)
    \/ \E reply \in replies2, addOk \in BOOLEAN, replace \in BOOLEAN :
          ServiceLoop(reply, addOk, replace)
    \/ ServiceExcept
    \/ ServiceDone

\* one ingestion run of one pipeline, followed to its end
NextRun ==
    \/ requests = 0 /\ Upload
    \/ requests = 0 /\ ScriptRequest
    \/ requests = 0 /\ \E d \in Docs : ServiceCall(d)
    \/ RunStep(Stage1Replies(Cands, MaxRunCands), Stage2Replies(Entries \cup {Dict(<<>>)}))
    \/ ServiceStep(Stage1Replies(Cands, MaxRunCands),
                   Stage2Replies(Entries \cup {Dict(<<>>)}))

SpecRun == Init /\ [][NextRun]_vars

\* one ingestion run of one pipeline over candidates of every kind of name
NextNames ==
    \/ requests = 0 /\ Upload
    \/ requests = 0 /\ ScriptRequest
    \/ requests = 0 /\ \E d \in Docs : ServiceCall(d)
    \/ RunStep(Stage1Replies(NamedCands, MaxNamedCands), Stage2Replies(NameEntries))
    \/ ServiceStep(Stage1Replies(NamedCands, MaxNamedCands), Stage2Replies(NameEntries))

SpecNames == Init /\ [][NextNames]_vars

\* the batches of POST /ingest/files: at least one file, each with a content
\* that can or cannot be decoded as UTF-8
Batches == {b \in SeqsUpTo(Docs \X BOOLEAN, MaxBatch) : b # <<>>}
BatchUpload == \E files \in Batches : ingest_batch_files(files)

\* batch uploads and the worker
NextBatch ==
    \/ requests < MaxRequests /\ BatchUpload
    \/ WorkerStep(Stage1Replies(FewCands, MaxCands), Stage2Replies(FewEntries))

SpecBatch == Init /\ [][NextBatch]_vars

\* the offline script over a papers directory of two documents
InitScript ==
    /\ log = <<>>
    /\ papers = Docs
    /\ store = {}
    /\ queue = <<>>
    /\ run = [r \in Runners |-> Idle]
    /\ resp = NoResp
    /\ requests = 0
    /\ ingested = {}
    /\ qry = NoQuery
    /\ fl = NoFlat
    /\ report = NoReport
    /\ cmp = NoCompare
    /\ mon = NoMonitor

ScriptRun == ScriptStep(Stage1Replies(FewCands, MaxCands), Stage2Replies(FewEntries))

NextScript ==
    \/ requests < MaxRequests /\ ScriptRequest
    \/ ScriptRun

SpecScript == InitScript /\ [][NextScript]_vars

\* the script is sequential code: once started it goes on until main ends
SpecScriptFair == SpecScript /\ WF_vars(ScriptRun)

\* uploads and two worker processes that execute tasks at the same time
NextTwo ==
    \/ requests < MaxRequests /\ Upload
    \/ WorkerStep(Stage1Replies(TwoCands, MaxTwoCands), Stage2Replies(TwoEntries))
    \/ SecondWorkerStep(Stage1Replies(TwoCands, MaxTwoCands), Stage2Replies(TwoEntries))

SpecTwo == Init /\ [][NextTwo]_vars

\* uploads, tasks and status queries
NextStatus ==
    \/ requests < MaxRequests /\ Upload
    \/ WorkerStep(Stage1Replies(FewCands, MaxCands), Stage2Replies(FewEntries))
    \/ get_ingestion_status

SpecStatus == Init /\ [][NextStatus]_vars

\* the batch uploader and the worker: main uploads its files, then monitors
NextMonitor ==
    \/ mon.pc = "idle" /\ requests < MaxRequests /\ Upload
    \/ WorkerStep(Stage1Replies(FewCands, MaxCands), Stage2Replies(FewEntries))
    \/ MonitorStep

SpecMonitor == Init /\ [][NextMonitor]_vars

\* the worker executes the tasks of its queue, and monitor_progress, once
\* called, goes on polling; nothing makes a request fail in the end
SpecMonitorFair ==
    /\ SpecMonitor
    /\ WF_vars(WorkerStep(Stage1Replies(FewCands, MaxCands), Stage2Replies(FewEntries)))
    /\ WF_vars(MonitorStart(TRUE) \/ MonitorPoll(TRUE))

\* the API process and its worker: uploads, tasks and /suggest queries
NextApi ==
    \/ requests < MaxRequests /\ Upload
    \/ WorkerStep(Stage1Replies(FewCands, MaxCands), Stage2Replies(FewEntries))
    \/ QueryStep

SpecApi == Init /\ [][NextApi]_vars

(***************************************************************************)
(* Properties.                                                             *)
(***************************************************************************)
Range(q) == {q[k] : k \in 1..Len(q)}

\* the step is an upload of d / a start of the script
IsUploadOf(d) == requests' = requests + 1 /\ run' = run /\ resp'.file = d
IsScriptStart == run["sc"].pc = "idle" /\ run'["sc"].pc = "main"

\* candidate k of frame f carries a non-empty snippet
HasSnippet(f, k) == Truthy(Lookup(f.list[k].v, K_experimental_text))
\* the class of the Stage-2 completion of candidate k, "none" without a call
S2Class(f, k) ==
    IF \E j \in 1..Len(f.trace) : f.trace[j][1] = "s2" /\ f.trace[j][2] = k
    THEN f.trace[CHOOSE j \in 1..Len(f.trace) :
                     f.trace[j][1] = "s2" /\ f.trace[j][2] = k][3]
    ELSE "none"
\* candidate k was written to the vector store
Added(f, k) == \E j \in 1..Len(f.trace) : f.trace[j][1] = "add" /\ f.trace[j][2] = k
\* the loop of frame f has run through its whole list
LoopFinished(f) == f.list # <<>> /\ f.i > Len(f.list)
\* the mof_name the loop reads for candidate k
NameOf(f, k, default) == DictGet(Lookup(f.list[k].v, K_mof_name), default)

\* C1 (as claimed): an ingestion attempt of a document of which an earlier
\* ingestion ended normally with at least one stored entry is skipped
\* entirely: the upload answers "skipped" and leaves queue, store and log as
\* they are, and a start of the script does not list the document.
C1_DuplicateSkipped ==
    [][\A d \in Docs :
          /\ (d \in ingested /\ IsUploadOf(d))
                => /\ resp'.message = "skipped"
                   /\ queue' = queue /\ store' = store /\ log' = log
          /\ (d \in ingested' /\ IsScriptStart) => d \notin Range(run'["sc"].todo)]_vars

\* C2 (as claimed): a line is appended to the processed log only by a run
\* that has stored at least one entry for that document.
C2_LoggedOnlyAfterStore ==
    [][Len(log') > Len(log)
          => \E r \in Runners : /\ run'[r] # run[r]
                                /\ run[r].n >= 1
                                /\ log' = Append(log, run[r].filename)]_vars

\* C3: in a run whose Stage-2 completions all either parse to an entry or
\* cannot be parsed even after repair, an unparseable completion never ends
\* the run in its exception handler; once the loop is through, of the
\* candidates with a snippet exactly the unparseable ones are not stored, every
\* other one is in the vector store under its entry id, successful_entries
\* counts the stored ones, and the worker, having stored at least one, has
\* logged the document when it returns.
OnlyParseFailures(f) ==
    \A j \in 1..Len(f.trace) :
        f.trace[j][1] = "s2" => f.trace[j][3] \in {"parsed", "unparsed"}

EntryIdOf(r, f, k) ==
    CASE r \in Workers -> WorkerUniqueId(f.filename,
                                    NameOf(f, k, Str(<<"s", "_">> \o IntStr(k))).v)
      [] r = "sv" -> ServiceUniqueId(f.filename, NameOf(f, k, SynthesisOrdinal(k)).v)
      [] OTHER -> ScriptUniqueId(f.filename, NameOf(f, k, SynthesisOrdinal(k)))

C4_CompletionFailureIsolated ==
    \A r \in Runners :
        LET f == run[r]
        IN  (\E j \in 1..Len(f.trace) :
                f.trace[j][1] = "s2" /\ f.trace[j][3] \in {"error", "null"})
               => /\ f.pc \in {"loop", "mark", "ret"}
                  /\ f.pc = "ret" => f.i > Len(f.list)

C6_LoggedAtMostOnce ==
    \A j, k \in 1..Len(log) : j # k => log[j] # log[k]

\* C7 (as claimed, in the form a finished task decides): a task that has
\* stored at least one entry has the document in the processed log when it
\* ends, by return or by exception.
C7_StoredThenMarked ==
    (run["w1"].pc \in {"ret", "raised"} /\ run["w1"].n >= 1)
       => run["w1"].filename \in Range(log)

\* C8: when the feasibility check does not yield a verdict (the completion
\* call raises, returns no content, content that is no JSON text, or JSON
\* that is no object), _check_feasibility answers (True, diagnostic): no
\* exception leaves gate 1 and the query goes on to retrieval.
C8_FeasibilityFailOpen ==
    qry.feas \in {"error", "null", "unparsed", "nondict"}
       => /\ qry.is_plausible = Bool(TRUE)
          /\ qry.reasoning = Diagnostic
          /\ qry.pc = "gate2" \/ (Len(qry.trace) >= 2 /\ qry.trace[2] = "embed")
          /\ qry.exc # "" => Len(qry.trace) >= 2

\* the checker's call raised and the query has returned a suggestion
C8_Witness ==
    /\ qry.pc = "done" /\ qry.feas = "error"
    /\ qry.trace = <<"feasibility", "embed", "query", "generate">>

\* C9: when the feasibility check reports the request implausible, the query
\* ends at gate 1 with a ValueError that carries the checker's reasoning:
\* nothing is embedded, nothing retrieved, nothing generated.
C9_ImplausibleShortCircuit ==
    (qry.feas # "" /\ ~Truthy(qry.is_plausible))
       => /\ qry.pc \in {"raised", "responded"}
          /\ qry.exc = "ValueError"
          /\ qry.detail = ImplausibleDetail(qry.reasoning)
          /\ qry.trace = <<"feasibility">>

\* the checker answered is_plausible false with a reason, the query raised
C9_Witness ==
    /\ qry.pc = "raised" /\ qry.feas = "dict"
    /\ qry.is_plausible = Bool(FALSE) /\ qry.reasoning = Reason
    /\ qry.detail = ImplausibleDetail(Reason)

\* C10: a query that has passed retrieval, and so every returned suggestion,
\* has generation_mode RAG_BASED with sources the non-empty list of the
\* retrieved metadatas if retrieval returned at least one document, and
\* LLM_FALLBACK with an empty sources list if it returned none.
C10_ModeMatchesRetrieval ==
    /\ qry.pc = "done" => qry.generation_mode # ""
    /\ qry.generation_mode # ""
         => \/ /\ qry.documents # <<>>
               /\ qry.generation_mode = "RAG_BASED"
               /\ qry.sources # <<>>
               /\ qry.sources = Metadatas(qry.documents)
            \/ /\ qry.documents = <<>>
               /\ qry.generation_mode = "LLM_FALLBACK"
               /\ qry.sources = <<>>

\* a suggestion returned from two retrieved documents
C10_Witness ==
    /\ qry.pc = "done" /\ qry.generation_mode = "RAG_BASED"
    /\ Len(qry.documents) = 2 /\ Len(qry.sources) = 2

\* C11 (as claimed): of the errors /suggest answers, the bad-request category
\* (400) reports the implausible verdict and only it; a failure of the
\* generation call (the call raises, or its output is no JSON) is never
\* reported in that category.
ImplausibleVerdict(f) == f.feas # "" /\ ~Truthy(f.is_plausible)
GenerationFailed(f) ==
    /\ f.exc # ""
    /\ f.trace # <<>> /\ f.trace[Len(f.trace)] = "generate"

C11_DistinctErrorCategories ==
    (qry.pc = "responded" /\ qry.exc # "")
       => /\ qry.status = 400 <=> ImplausibleVerdict(qry)
          /\ GenerationFailed(qry) => qry.status # 400

\* what the caller of a finished run is handed: the task's state and result
\* (203-210), the count returned by the service and by the script's function
Outcome(r, f) ==
    IF r \in Workers
    THEN IF f.pc = "raised" THEN <<"raised">> ELSE <<"returned", f.res>>
    ELSE <<"returned", f.n>>
\* the outcome of a run in which Stage 1 found no syntheses
NoSynthesesOutcome(r) ==
    IF r \in Workers THEN <<"returned", "no_syntheses">> ELSE <<"returned", 0>>

\* C12 (as claimed): a run whose Stage-1 call raised, or whose Stage-1
\* response cannot be parsed even after repair, ends with an outcome for the
\* caller that differs from the outcome "no syntheses found", and the
\* document is not in the processed log.
C12_Stage1FailureDistinct ==
    \A r \in Runners :
        LET f == run[r]
        IN  (/\ f.pc \in {"ret", "raised"}
             /\ f.trace # <<>>
             /\ f.trace[1][2] \in {"error", "unparsed"})
               => /\ Outcome(r, f) # NoSynthesesOutcome(r)
                  /\ f.filename \notin Range(log)

\* C13 (as claimed): robust_json_loads never raises past its boundary: no
\* run is ever ended by an exception that left a parse, every caller is
\* handed an object or the failure value, also for a completion without
\* content.
C13_RobustJsonLoadsNeverRaises ==
    \A r \in Runners : run[r].err # "type"

\* C14 (as claimed): in no pipeline does a candidate with an empty or
\* missing experimental_text reach a Stage-2 completion call.
C14_EmptySnippetNeverExtracted ==
    \A r \in Runners :
        \A k \in 1..Len(run[r].list) :
            S2Class(run[r], k) # "none" => HasSnippet(run[r], k)

\* C15 (as claimed): in the task and in the API service every stored
\* candidate is in the vector store under file name + "_" + normalized name,
\* the name being the Stage-1 mof_name or, when the key is missing or its
\* value null, the fallback ordinal; and a candidate without a name does not
\* end the run in its exception handler before its Stage-2 call.
Nameless(f, k) == Lookup(f.list[k].v, K_mof_name) \in {Null, Missing}

C15_EntryIdWithFallback ==
    \A r \in {"w1", "sv"} :
        LET f == run[r]
        IN  \A k \in 1..Len(f.list) :
               /\ Added(f, k) => EntryIdOf(r, f, k) \in StoreIds
               /\ (Nameless(f, k) /\ HasSnippet(f, k))
                     => ~(f.i = k /\ f.err # "" /\ S2Class(f, k) = "none")

\* C16 (as claimed): flatten_metadata maps a "solvent" that is the empty
\* list or null to the empty string, and a non-empty list to its elements
\* joined with ", ".
C16_ListFieldFlattened ==
    (fl.pc \in {"once", "twice"} /\ HasKey(fl.a, K_solvent))
       => LET solvent == Lookup(fl.a, K_solvent)
              flat == Lookup(fl.fa, K_solvent)
          IN  /\ solvent \in {Null, List(<<>>)} => flat = Str(<<>>)
              /\ (solvent.t = "list" /\ solvent.v # <<>>)
                    => flat = Str(JoinComma(solvent.v))

\* C17: flatten_metadata is stable under repetition, in the copy of the
\* service and in the copy of the script: flattening the flattened mapping
\* gives the flattened mapping.
C17_FlattenIdempotent ==
    fl.pc = "twice" => fl.ffa = fl.fa

\* a record with a nested dictionary, a list and a null, which flattening
\* changes, has been flattened twice
C17_Witness ==
    /\ fl.pc = "twice" /\ fl.version = "service"
    /\ Lookup(fl.a, K_metal_source).t = "dict"
    /\ Lookup(fl.a, K_solvent) = List(<<Str(<<"D">>), Str(<<"W">>)>>)
    /\ Lookup(fl.a, K_temperature_celsius) = Null
    /\ fl.fa # fl.a
    /\ fl.ffa = fl.fa

\* C18 (as claimed): the copy of the service is injective over the entries
\* that follow the schema: two entries that differ in the value of a field
\* have different flattened mappings.
C18_FlattenInjective ==
    (/\ fl.pc \in {"once", "twice"} /\ fl.version = "service"
     /\ Dict(fl.a) \in FlatRecords /\ Dict(fl.b) \in FlatRecords
     /\ fl.a # fl.b)
       => fl.fa # fl.fb

\* C19 (as claimed): a batch upload that holds, next to a file whose content
\* cannot be decoded, a new file that can be decoded is not failed as a
\* whole: every new decodable file of the batch is dispatched, and the
\* response reports that many accepted files.
IsBatchUpload == requests' = requests + 1 /\ resp'.batch # <<>>
NewDecodable(files, processed_files) ==
    SelectSeq(files, LAMBDA file : file[1] \notin processed_files /\ file[2])

C19_BatchIsolation ==
    [][(IsBatchUpload /\ NewDecodable(resp'.batch, get_processed_files) # <<>>)
          => LET new == NewDecodable(resp'.batch, get_processed_files)
             IN  /\ resp'.message = "accepted"
                 /\ resp'.files_accepted = Len(new)
                 /\ queue' = queue \o [k \in 1..Len(new) |-> new[k][1]]]_vars

\* C20: the calls of a query are, in this order and each at most once, the
\* feasibility completion, the embedding of the query text, the vector-store
\* retrieval and the generation completion: at most three external round
\* trips, none of them repeated.
QueryOrder == <<"feasibility", "embed", "query", "generate">>

C20_ThreeRoundTrips ==
    /\ Len(qry.trace) <= Len(QueryOrder)
    /\ qry.trace = SubSeq(QueryOrder, 1, Len(qry.trace))

\* a query answered with a suggestion after all its calls
C20_Witness ==
    /\ qry.pc = "responded" /\ qry.status = 200
    /\ qry.trace = QueryOrder

\* C21 (as claimed): a status query reports as processed_files the set of
\* the distinct document ids in the processed log, and as
\* total_papers_processed their number, however often an id is repeated.
IsStatusQuery == report'.answered /\ UNCHANGED <<log, papers, resp, run, requests>>

C21_StatusReportsLogSet ==
    [][(IsStatusQuery /\ report' # report)
          => /\ Range(report'.processed_files) = Range(log)
             /\ report'.total_papers_processed = Cardinality(Range(log))]_vars

\* C22 (as claimed): a feasibility response that is a JSON object without
\* the key is_plausible does not block the request: the gate answers
\* is_plausible = true and the query goes on to retrieval.
C22_MissingVerdictFailsOpen ==
    qry.feas = "nokey"
       => /\ qry.is_plausible = Bool(TRUE)
          /\ qry.pc = "gate2" \/ (Len(qry.trace) >= 2 /\ qry.trace[2] = "embed")

\* C23 (as claimed): a feasibility or generation completion that is JSON
\* only after escape repair is used as the result: the gate answers the
\* verdict and the reasoning of the repaired object, the query returns the
\* suggested_protocol of the repaired object, exactly as for the same object
\* received as plain JSON.
AsDirect(reply) == [reply EXCEPT !.form = "direct"]

C23_QueryPathRepairs ==
    /\ qry.freply.form = "repair"
         => LET check == check_feasibility(AsDirect(qry.freply))
            IN  /\ qry.is_plausible = check.is_plausible
                /\ qry.reasoning = check.reasoning
    /\ (qry.greply.form = "repair" /\ qry.greply.obj.t = "dict")
         => /\ qry.exc = ""
            /\ qry.suggestion = DictGet(Lookup(qry.greply.obj.v, K_suggested_protocol),
                                        Dict(<<>>))

\* C24: process_and_store_paper never raises: whatever fails in Stage 1, in
\* Stage 2 or in the store write, the call ends by returning
\* successful_entries, which is the number of candidates whose
\* collection.add completed in this call.
Stores(f) == Cardinality({k \in 1..Len(f.list) : Added(f, k)})

C24_ServiceNeverRaises ==
    LET f == run["sv"]
    IN  /\ f.pc \in {"idle", "s1", "loop", "except", "ret"}
        /\ f.pc \in {"except", "ret"} => f.n = Stores(f)
        /\ f.pc = "ret" => f.res = "returned"

\* the service has returned 1 from a call whose second store write failed
C24_Witness ==
    LET f == run["sv"]
    IN  /\ f.pc = "ret" /\ f.err = "storage"
        /\ f.n = 1 /\ Added(f, 1) /\ f.i = 2
        /\ Cardinality(store) = 1

\* C25 (as claimed): every entry the task or the API service has stored
\* carries the name Stage 1 gave its candidate (the fallback ordinal without
\* one): its id is the file name + "_" + the normalized name and the
\* mof_name of its metadata is that name, whatever Stage 2 returned.
C25_Stage1NameAuthoritative ==
    \A r \in {"w1", "sv"} :
        LET f == run[r]
            default(k) == IF r = "w1" THEN Str(<<"s", "_">> \o IntStr(k))
                                      ELSE SynthesisOrdinal(k)
        IN  f.pc # "idle"
               => \A e \in store :
                     \E k \in 1..Len(f.list) :
                        /\ Added(f, k)
                        /\ e[1] = EntryIdOf(r, f, k)
                        /\ Lookup(e[2], K_mof_name) = NameOf(f, k, default(k))

\* C26: a run whose clients were set up issues its Stage-1 completion call
\* exactly once, before every other call, and then at most one Stage-2
\* completion call per candidate, the candidates taken in the order of the
\* list: no completion call is repeated.
CompletionCalls(f) == SelectSeq(f.trace, LAMBDA e : e[1] \in {"s1", "s2"})

C26_OneCallEach ==
    \A r \in Runners :
        LET f == run[r]
            calls == CompletionCalls(f)
        IN  /\ (f.pc \in {"loop", "mark", "except", "ret", "raised"} /\ f.err # "init")
                  => (calls # <<>> /\ calls[1][1] = "s1")
            /\ \A j \in 2..Len(calls) :
                  /\ calls[j][1] = "s2"
                  /\ calls[j][2] \in 1..Len(f.list)
                  /\ j > 2 => calls[j - 1][2] < calls[j][2]

\* the task has returned from a list of three candidates of which the
\* second has no snippet: one Stage-1 call, Stage-2 calls for the first and
\* for the third
C26_Witness ==
    LET f == run["w1"]
        calls == CompletionCalls(f)
    IN  /\ f.pc = "ret" /\ Len(f.list) = 3
        /\ Len(calls) = 3
        /\ calls[1][1] = "s1" /\ calls[2][2] = 1 /\ calls[3][2] = 3

\* C27: in a run of the script a failure in one document (Stage 1 fails, a
\* completion call raises, a store write fails) does not keep the other
\* documents from being processed, and a document is marked processed
\* exactly if its own run stored an entry: every file listed for the run is
\* processed to its return, and of the files finished exactly those with
\* new_entries > 0 are in the log.
C27_ScriptDocumentIsolation ==
    /\ [](\A j \in 1..Len(run["sc"].done) :
             run["sc"].done[j][1] \in Range(log) <=> run["sc"].done[j][3] > 0)
    /\ \A d \in Docs :
          (d \in Range(run["sc"].todo))
             ~> (run["sc"].pc = "ret" /\ run["sc"].filename = d)

\* the first document failed with a completion error and stored nothing, the
\* second has been processed and has stored an entry
C27_Witness ==
    LET f == run["sc"]
    IN  /\ f.pc = "ret" /\ f.filename = <<"a">> /\ f.n = 1 /\ f.err = ""
        /\ f.done = << <<(<<" ", "a">>), "completion", 0>> >>

\* C28: when two worker processes have executed the tasks of two different
\* documents, in whatever interleaving of their steps (one after the other
\* included), the vector store holds exactly the records each task wrote in
\* its own run and the processed log holds exactly the documents whose task
\* reached the end of its loop, each once.
Contribution(f) ==
    {<<f.trace[j][3], f.trace[j][4]>> :
        j \in {k \in 1..Len(f.trace) : f.trace[k][1] = "add"}}
Marked(f) == f.pc = "ret" /\ f.res = "success"
DistinctIds(r, f) ==
    \A j, k \in 1..Len(f.list) : j # k => EntryIdOf(r, f, j) # EntryIdOf(r, f, k)
Finished(f) == f.pc \in {"ret", "raised"}

C28_ConcurrentAsSequential ==
    LET f1 == run["w1"]
        f2 == run["w2"]
        marked == {f \in {f1, f2} : Marked(f)}
    IN  (/\ Finished(f1) /\ Finished(f2)
         /\ f1.filename # f2.filename
         /\ DistinctIds("w1", f1) /\ DistinctIds("w2", f2))
           => /\ store = Contribution(f1) \cup Contribution(f2)
              /\ Range(log) = {f.filename : f \in marked}
              /\ Len(log) = Cardinality(marked)

\* both tasks have stored two entries and returned; the document uploaded
\* last was logged first, so its task overtook the other one
C28_Witness ==
    /\ Marked(run["w1"]) /\ Marked(run["w2"])
    /\ run["w1"].n = 2 /\ run["w2"].n = 2
    /\ Cardinality(store) = 4
    /\ Len(log) = 2 /\ log[1] = resp.file /\ log[2] # resp.file

\* C29 (as claimed): for the same file name and the same completions the API
\* service and the script leave the same records (entry ids with their
\* metadata) in the collection and return the same count.
C29_ServiceEqualsScript ==
    cmp.pc = "both" => cmp.service = cmp.script

\* C30: a forced start of the script leaves the processed log empty and
\* lists every paper of the directory for the run; the run drops no file of
\* its list and ends only with the list worked off; and no step other than
\* a forced start removes a line from the log: the log after the step
\* begins with the log before it.
IsPrefix(p, q) == Len(p) <= Len(q) /\ SubSeq(q, 1, Len(p)) = p
IsForcedStart == IsScriptStart /\ run'["sc"].force
\* the files of the run in the order of the loop: those finished, those left
RunFiles(f) == [j \in 1..Len(f.done) |-> f.done[j][1]] \o f.todo

C30_ResetOnlyByForce ==
    [][/\ IsForcedStart
             => /\ log' = <<>>
                /\ Range(run'["sc"].todo) = papers
                /\ Len(run'["sc"].todo) = Cardinality(papers)
       /\ ~IsForcedStart => IsPrefix(log, log')
       /\ (run["sc"].pc # "idle" /\ run'["sc"].pc # "idle")
             => RunFiles(run'["sc"]) = RunFiles(run["sc"])
       /\ (run["sc"].pc # "idle" /\ run'["sc"].pc = "idle")
             => run["sc"].todo = <<>>]_vars

\* the task of a.md has appended a.md to the log and returned; a forced
\* start of the script has emptied the log since and lists a.md again
C30_Witness ==
    /\ run["w1"].pc = "ret" /\ run["w1"].res = "success"
    /\ run["w1"].filename = <<"a">>
    /\ run["sc"].pc = "main" /\ run["sc"].force
    /\ log = <<>>
    /\ <<"a">> \in Range(run["sc"].todo)

\* C31: a query (feasibility check, retrieval, generation), whether it
\* succeeds or fails, leaves the contents of the vector store and the
\* processed log unchanged: every step of a /suggest request keeps both.
C31_QueryKeepsStoreAndLog ==
    [][qry' # qry => (store' = store /\ log' = log)]_vars

\* a query answered from retrieved entries, and one that failed, each over a
\* store and a log that hold something
C31_Witness ==
    /\ qry.pc = "responded"
    /\ store # {} /\ log # <<>>
    /\ \/ qry.status = 200 /\ qry.generation_mode = "RAG_BASED"
       \/ qry.status = 500 /\ qry.trace = QueryOrder

\* C32: flatten_metadata never fails on a Knowledge Entry, and every value
\* of its output is a string, a number or a boolean: never null, a list or
\* a nested mapping.  Each record is flattened to a mapping (not to a
\* failure) whose values are primitive; so is the mapping flattened again.
Primitive(value) == value.t \in {"str", "int", "bool"}

C32_FlattenTotalAndPrimitive ==
    fl.pc \in {"once", "twice"} =>
        /\ \A k \in 1..Len(fl.fa) : Primitive(fl.fa[k][2])
        /\ \A k \in 1..Len(fl.fb) : Primitive(fl.fb[k][2])
        /\ \A k \in 1..Len(fl.ffa) : Primitive(fl.ffa[k][2])
        /\ fl.fa # <<>> /\ fl.fb # <<>>

\* the worker's copy has flattened an entry with a null field, a list and a
\* nested mapping that holds a null
C32_Witness ==
    /\ fl.pc = "once" /\ fl.version = "service"
    /\ \E k \in 1..Len(fl.a) : fl.a[k][2].t = "null"
    /\ \E k \in 1..Len(fl.a) : fl.a[k][2].t = "list"
    /\ \E k \in 1..Len(fl.a) :
          /\ fl.a[k][2].t = "dict"
          /\ \E j \in 1..Len(fl.a[k][2].v) : fl.a[k][2].v[j][2].t = "null"

\* C33 (as claimed): every Stage-1 and Stage-2 completion call made during
\* ingestion, by the worker task, the API ingestion service and the offline
\* script alike, is issued in deterministic mode, with sampling temperature 0.
IngestionCalls(f) == SelectSeq(f.trace, LAMBDA e : e[1] \in {"s1", "s2"})

C33_IngestionCallsDeterministic ==
    \A r \in Runners :
        \A j \in 1..Len(IngestionCalls(run[r])) :
            LET call == IngestionCalls(run[r])[j]
            IN  call[Len(call)] = "0.0"

\* C34 (as claimed): after a batch upload, monitor_progress terminates once
\* every dispatched ingestion task has finished, whatever the outcome of
\* each task: entries stored, no syntheses found, or failure.
AllTasksFinished == queue = <<>> /\ run["w1"].pc = "idle"

C34_MonitorTerminates ==
    (mon.pc = "poll" /\ AllTasksFinished) ~> (mon.pc \in {"done", "error"})

\* C35 (as claimed): between any two successive Stage-2 completion calls of
\* one ingestion run, the fixed pacing delay occurs.
C35_PacingBetweenCalls ==
    \A r \in Runners :
        LET t == run[r].trace
        IN  \A j, k \in 1..Len(t) :
                (j < k /\ t[j][1] = "s2" /\ t[k][1] = "s2")
                    => \E m \in (j + 1)..(k - 1) : t[m][1] = "sleep"

\* C36 (as claimed): between resets, a document id is never dispatched to
\* the worker queue again while an earlier dispatch of the same id is still
\* queued or running, and never twice within one batch request: of every
\* document at most one task is queued or running, and the dispatched files
\* of a response are distinct.
Pending(d) ==
    Cardinality({k \in 1..Len(queue) : queue[k] = d})
        + Cardinality({w \in Workers : run[w].pc # "idle" /\ run[w].filename = d})

C36_NoDoubleDispatch ==
    /\ \A d \in Docs : Pending(d) <= 1
    /\ \A j, k \in 1..Len(resp.filenames) :
           j # k => resp.filenames[j] # resp.filenames[k]

\* C37 (as claimed): whenever a document is marked processed, every Stage-1
\* candidate of the marking run has been attempted and has ended stored or
\* skipped; no candidate is left unattempted behind a processed mark.  The
\* step that appends the line of a run to the processed log is taken by a
\* run whose loop has gone through its whole list without an exception.
IsMarkBy(r) == Len(log') = Len(log) + 1 /\ run'[r] # run[r]

C37_MarkedAfterAllCandidates ==
    [][\A r \in Runners :
          IsMarkBy(r) => (LoopFinished(run[r]) /\ run[r].err = "")]_vars

\* C38 (as claimed): within one ingestion run, distinct Stage-1 candidates
\* receive distinct entry_ids, and entry_ids of different documents never
\* coincide, so the stored count of a run equals the number of distinct
\* ids it wrote.  Candidates are distinct when they differ in their name
\* or in their snippet.
WrittenIds(f) ==
    {f.trace[j][3] : j \in {k \in 1..Len(f.trace) : f.trace[k][1] = "add"}}
AllDistinct(list) == \A j, k \in 1..Len(list) : j # k => list[j] # list[k]

C38_DistinctEntryIds ==
    /\ \A r \in Runners :
           LET f == run[r]
           IN  /\ \A j, k \in 1..Len(f.trace) :
                      (/\ f.trace[j][1] = "add" /\ f.trace[k][1] = "add"
                       /\ f.list[f.trace[j][2]] # f.list[f.trace[k][2]])
                          => f.trace[j][3] # f.trace[k][3]
               /\ AllDistinct(f.list) => f.n = Cardinality(WrittenIds(f))
    /\ \A r, q \in Runners :
           run[r].filename # run[q].filename
               => WrittenIds(run[r]) \cap WrittenIds(run[q]) = {}

====
